---- MODULE Spec2Model ----
(***************************************************************************)
(* ThinkThrift account vault: the App component (store round trips and the *)
(* in-memory collection) and the AccountTable component (view, selection,  *)
(* bulk bar, entry form).                                                  *)
(*                                                                         *)
(* A record is a function from field names to values; an optional field    *)
(* that is undefined is a field name missing from the DOMAIN, as in the    *)
(* JavaScript objects the code spreads and merges.  A string is a sequence *)
(* of one-character strings.  An activity-log entry is its action label;   *)
(* the timestamp is left out.                                              *)
(***************************************************************************)
EXTENDS Integers, Sequences, FiniteSets, TLC

(* ------------------------------ bounds -------------------------------- *)
MaxId == 2          \* document ids the store can hand out
MaxInFlight == 2    \* store round trips in flight at once
MaxHist == 3        \* longest activity log an edit may produce
MaxLen == 3         \* longest username typed into the form (SpecForm)
MaxActive == 11     \* active records of a drawn collection (SpecSel)
MaxArchived == 1    \* archived records of a drawn collection (SpecSel)
MaxRecs == 3        \* records of a drawn collection (SpecView)

(* -------------------------- program constants ------------------------- *)
ITEMS_PER_PAGE == 10

VARIABLES
  store,            \* Firestore collection "accounts": doc id -> doc data
  usedIds,          \* doc ids the store has ever assigned
  data,             \* App: const [data, setData]
  ops,              \* store round trips in flight, each with its awaiting handler
  selectedIds,      \* AccountTable: selection set
  currentPage,      \* AccountTable: 1-indexed page
  viewMode,         \* AccountTable: "active" | "archived"
  showFavoritesOnly,
  isModalOpen,
  modalMode,        \* "add" | "edit"
  formState,
  isSubmitting,
  searchTerm,
  sortConfig,       \* null | [key, direction]
  selectedAccount,  \* the record the detail panel was opened with, or null
  isAnalyzing,
  analysis,
  platformTrends,
  audit,            \* the runAudit call suspended at an await, or null
  alert,            \* the blocking alert the last step raised, or NoAlert
  download,         \* the file the last export handed to the browser, or null
  isAuthenticated,  \* App: authState.isAuthenticated
  isLoadingAuth,    \* App: no session notification has arrived yet
  authRequest,      \* the call to the auth service in flight: "none" | "init" | "signIn" | "signOut"
  loading,          \* Login: busy flag of the sign-in form
  currentView,      \* App: "dashboard" | "accounts" | "settings"
  isLoadingData     \* App: busy flag of fetchAccounts

vars == <<store, usedIds, data, ops, selectedIds, currentPage, viewMode,
          showFavoritesOnly, isModalOpen, modalMode, formState, isSubmitting,
          searchTerm, sortConfig, selectedAccount, isAnalyzing, analysis,
          platformTrends, audit, alert, download, isAuthenticated, isLoadingAuth,
          authRequest, loading, currentView, isLoadingData>>

storeVars == <<store, usedIds>>
tableVars == <<selectedIds, currentPage, viewMode, showFavoritesOnly>>
formVars == <<isModalOpen, modalMode, formState, isSubmitting>>
queryVars == <<searchTerm, sortConfig>>
panelVars == <<selectedAccount, isAnalyzing, analysis, platformTrends, audit>>
sessionVars == <<isAuthenticated, isLoadingAuth, authRequest, loading, currentView>>
shellVars == <<download, sessionVars, isLoadingData>>

null == [isNull |-> TRUE]
NoAlert == ""

Ids == 1..MaxId

(* ------------------------------ helpers ------------------------------- *)
Min(a, b) == IF a < b THEN a ELSE b
Max(a, b) == IF a > b THEN a ELSE b

\* JavaScript truthiness of an optional boolean field
Truthy(item, f) == f \in DOMAIN item /\ item[f] = TRUE

\* { ...a, ...b }: the fields of b laid over the fields of a
Spread(a, b) == b @@ a

idsOf(seq) == {seq[i].id : i \in 1..Len(seq)}

\* data.find(d => d.id === id): the first match, or no match
HasId(seq, id) == \E i \in 1..Len(seq) : seq[i].id = id
find(seq, id) == seq[CHOOSE i \in 1..Len(seq) :
                       seq[i].id = id /\ \A j \in 1..(i-1) : seq[j].id # id]

(* -------------------- AccountTable: the derived view ------------------ *)
\* variant: the active view asks for an explicit false
viewFilter_strictFalse(item, mode) ==
  IF mode = "active"
  THEN "isArchived" \in DOMAIN item /\ item.isArchived = FALSE
  ELSE Truthy(item, "isArchived")

viewFilter(item, mode) ==
  IF mode = "active" THEN ~Truthy(item, "isArchived") ELSE Truthy(item, "isArchived")

\* String.prototype.toLowerCase, on the letters the model's strings use
Upper == <<"A", "B", "I", "L", "T">>
Lower == <<"a", "b", "i", "l", "t">>

toLowerChar(c) ==
  IF \E k \in 1..Len(Upper) : Upper[k] = c
  THEN Lower[CHOOSE k \in 1..Len(Upper) : Upper[k] = c]
  ELSE c

toLowerCase(str) == [i \in 1..Len(str) |-> toLowerChar(str[i])]

\* String.prototype.includes
includes(str, t) == \E k \in 0..(Len(str) - Len(t)) : SubSeq(str, k + 1, k + Len(t)) = t

\* item.f && ... : an optional string that is present and not ''
hasText(item, f) == f \in DOMAIN item /\ item[f] # <<>>

\* variant: every searched field has to hold the term
matchesSearch_allFields(item, lower) ==
  /\ includes(toLowerCase(item.username), lower)
  /\ includes(toLowerCase(item.platform), lower)
  /\ hasText(item, "realName") /\ includes(toLowerCase(item.realName), lower)
  /\ hasText(item, "email") /\ includes(toLowerCase(item.email), lower)
  /\ hasText(item, "accountManager") /\ includes(toLowerCase(item.accountManager), lower)

matchesSearch(item, lower) ==
  \/ includes(toLowerCase(item.username), lower)
  \/ includes(toLowerCase(item.platform), lower)
  \/ hasText(item, "realName") /\ includes(toLowerCase(item.realName), lower)
  \/ hasText(item, "email") /\ includes(toLowerCase(item.email), lower)
  \/ hasText(item, "accountManager") /\ includes(toLowerCase(item.accountManager), lower)

\* the relational operators on strings compare UTF-16 code units
CodeUnits == <<"@", "A", "B", "a", "b">>
charCode(c) == CHOOSE k \in 1..Len(CodeUnits) : CodeUnits[k] = c

RECURSIVE strLess(_, _)
strLess(a, b) ==
  IF b = <<>> THEN FALSE
  ELSE IF a = <<>> THEN TRUE
  ELSE IF Head(a) = Head(b) THEN strLess(Tail(a), Tail(b))
  ELSE charCode(Head(a)) < charCode(Head(b))

\* a[key] ?? '' and b[key] ?? '' under < : a number is stored in thousandths,
\* and '' against a number converts to 0
NumericKeys == {"followers", "engagementRate"}

less(a, b, key) ==
  IF key \in NumericKeys
  THEN (IF key \in DOMAIN a THEN a[key] ELSE 0) < (IF key \in DOMAIN b THEN b[key] ELSE 0)
  ELSE strLess(IF key \in DOMAIN a THEN a[key] ELSE <<>>,
               IF key \in DOMAIN b THEN b[key] ELSE <<>>)

\* variant: descending order answers -1 for every pair that is not greater
compareFn_tiesFlipped(a, b, cfg) ==
  IF cfg.direction = "asc"
  THEN (IF less(a, b, cfg.key) THEN -1 ELSE IF less(b, a, cfg.key) THEN 1 ELSE 0)
  ELSE (IF less(a, b, cfg.key) THEN 1 ELSE -1)

\* the comparator handed to result.sort
compareFn(a, b, cfg) ==
  IF less(a, b, cfg.key) THEN (IF cfg.direction = "asc" THEN -1 ELSE 1)
  ELSE IF less(b, a, cfg.key) THEN (IF cfg.direction = "asc" THEN 1 ELSE -1)
  ELSE 0

\* Array.prototype.sort is stable: an element goes in front of the first
\* element the comparator puts it strictly before
RECURSIVE insertSorted(_, _, _)
insertSorted(x, sorted, cfg) ==
  IF sorted = <<>> THEN <<x>>
  ELSE IF compareFn(x, Head(sorted), cfg) < 0 THEN <<x>> \o sorted
  ELSE <<Head(sorted)>> \o insertSorted(x, Tail(sorted), cfg)

RECURSIVE sort(_, _)
sort(seq, cfg) ==
  IF seq = <<>> THEN <<>>
  ELSE insertSorted(seq[Len(seq)], sort(SubSeq(seq, 1, Len(seq) - 1), cfg), cfg)

viewOf(d, mode, term, favOnly, cfg) ==
  LET inMode(item) == viewFilter(item, mode)
      found(item) == matchesSearch(item, toLowerCase(term))
      isFav(item) == Truthy(item, "isFavorite")
      inView == SelectSeq(d, inMode)
      searched == IF term # <<>> THEN SelectSeq(inView, found) ELSE inView
      result == IF favOnly THEN SelectSeq(searched, isFav) ELSE searched
  IN IF cfg # null THEN sort(result, cfg) ELSE result

\* the view with no search term and no sort set
filteredDataOf(d, mode, favOnly) == viewOf(d, mode, <<>>, favOnly, null)

filteredData == viewOf(data, viewMode, searchTerm, showFavoritesOnly, sortConfig)

\* variant: Array.prototype.slice with an inclusive end
slice_inclusiveEnd(seq, from, to) == SubSeq(seq, from + 1, Min(to + 1, Len(seq)))

slice(seq, from, to) == SubSeq(seq, from + 1, Min(to, Len(seq)))

paginatedDataOf(view, page) ==
  slice(view, (page - 1) * ITEMS_PER_PAGE, page * ITEMS_PER_PAGE)

paginatedData == paginatedDataOf(filteredData, currentPage)

totalPages == (Len(filteredData) + ITEMS_PER_PAGE - 1) \div ITEMS_PER_PAGE

\* the footer shows totalPages || 1
displayedTotalPages == IF totalPages = 0 THEN 1 ELSE totalPages

(* ------------------------ entry form: submit -------------------------- *)
\* the four platforms the entry form offers
Twitter == <<"T", "w", "i", "t", "t", "e", "r">>
Instagram == <<"I", "n", "s", "t", "a", "g", "r", "a", "m">>
LinkedIn == <<"L", "i", "n", "k", "e", "d", "I", "n">>
TikTok == <<"T", "i", "k", "T", "o", "k">>
Platforms == {Twitter, Instagram, LinkedIn, TikTok}

\* the fields the modelled code reads; the other free-text fields start as ''
\* in the same way and are only copied
Active == <<"A", "c", "t", "i", "v", "e">>

initialFormState ==
  [username |-> <<>>, platform |-> Twitter, followers |-> 0, engagementRate |-> 0,
   status |-> Active, realName |-> <<>>, email |-> <<>>, accountManager |-> <<>>]

startsWithAt(u) == Len(u) > 0 /\ u[1] = "@"

\* variant: includes('@') in place of startsWith('@')
normalizeUsername_includes(u) ==
  IF \E i \in 1..Len(u) : u[i] = "@" THEN u ELSE <<"@">> \o u

normalizeUsername(u) == IF startsWithAt(u) THEN u ELSE <<"@">> \o u

\* String.prototype.replace('@', ''): drops the first '@' only
RECURSIVE replaceAt(_)
replaceAt(u) ==
  IF u = <<>> THEN <<>>
  ELSE IF Head(u) = "@" THEN Tail(u)
  ELSE <<Head(u)>> \o replaceAt(Tail(u))

avatarUrl(username) ==
  <<"https://ui-avatars.com/api/?name=">> \o replaceAt(username)
     \o <<"&background=random&color=fff">>

\* variant: the avatar is built from the input as typed
addPayload_rawName(form) ==
  Spread(form, [username |-> normalizeUsername(form.username),
                avatar |-> <<"https://ui-avatars.com/api/?name=">> \o form.username
                             \o <<"&background=random&color=fff">>,
                history |-> <<"Account Created">>])

addPayload(form) ==
  Spread(form, [username |-> normalizeUsername(form.username),
                avatar |-> avatarUrl(normalizeUsername(form.username)),
                history |-> <<"Account Created">>])

currentHistory(d, id) ==
  IF HasId(d, id) /\ "history" \in DOMAIN find(d, id) THEN find(d, id).history ELSE <<>>

editPayload(form, d) ==
  Spread(form, [username |-> normalizeUsername(form.username),
                history |-> Append(currentHistory(d, form.id), "Profile Updated")])

(* ------------------------ the generative service --------------------- *)
\* response.text is a record: body "" is the empty text, body "json" a text
\* that JSON.parse accepts, any other body a text it rejects; about names what
\* the prompt asked about and so what the answer describes
EmptyText == [body |-> ""]
MalformedText == [body |-> "<html>"]
JsonText(about) == [body |-> "json", about |-> about]
TrendText(about) == [body |-> "trends", about |-> about]

\* the outcomes of ai.models.generateContent for the audit prompt
AnalyzeResponses(account) ==
  {[rejected |-> TRUE],
   [rejected |-> FALSE, text |-> EmptyText],
   [rejected |-> FALSE, text |-> MalformedText],
   [rejected |-> FALSE, text |-> JsonText(account.id)]}

\* the outcomes of generateContent for the trends prompt; chunks is
\* candidates[0].groundingMetadata.groundingChunks when the response has it
TrendResponses(platform) ==
  {[rejected |-> TRUE],
   [rejected |-> FALSE, text |-> EmptyText],
   [rejected |-> FALSE, text |-> TrendText(platform)],
   [rejected |-> FALSE, text |-> TrendText(platform), chunks |-> <<"chunk">>]}

\* JSON.parse: the parsed value, or a SyntaxError
JSONparse(text) ==
  IF text.body = "json"
  THEN [throws |-> FALSE, value |-> [sentiment |-> "Positive", about |-> text.about]]
  ELSE [throws |-> TRUE]

\* variant: JSON.parse is called outside the try block
analyzeAccount_parseOutsideTry(r) ==
  IF r.rejected THEN [throws |-> FALSE, value |-> null]
  ELSE IF r.text.body = "" THEN [throws |-> FALSE, value |-> null]
  ELSE JSONparse(r.text)

\* what analyzeAccount gives its caller for an outcome r of its one request
analyzeAccount(r) ==
  IF r.rejected THEN [throws |-> FALSE, value |-> null]
  ELSE IF r.text.body = "" THEN [throws |-> FALSE, value |-> null]
  ELSE IF JSONparse(r.text).throws THEN [throws |-> FALSE, value |-> null]
  ELSE JSONparse(r.text)

FailedTrends == [text |-> [body |-> "Failed to fetch live trends."], sources |-> <<>>]
NoTrendData == [body |-> "No trend data available."]

\* variant: the failure shape of analyzeAccount
getPlatformTrends_nullOnFailure(r) ==
  IF r.rejected THEN [throws |-> FALSE, value |-> null]
  ELSE [throws |-> FALSE,
        value |-> [text |-> IF r.text.body # "" THEN r.text ELSE NoTrendData,
                   sources |-> IF "chunks" \in DOMAIN r THEN r.chunks ELSE <<>>]]

\* what getPlatformTrends gives its caller for an outcome r of its one request
getPlatformTrends(r) ==
  IF r.rejected THEN [throws |-> FALSE, value |-> FailedTrends]
  ELSE [throws |-> FALSE,
        value |-> [text |-> IF r.text.body # "" THEN r.text ELSE NoTrendData,
                   sources |-> IF "chunks" \in DOMAIN r THEN r.chunks ELSE <<>>]]

(* --------------------------- the store -------------------------------- *)
\* getDocs + forEach: { id: doc.id, ...doc.data() } in document-id order
RECURSIVE snapshotFrom(_, _)
snapshotFrom(st, i) ==
  IF i > MaxId /\ \A j \in DOMAIN st : j < i THEN <<>>
  ELSE IF i \in DOMAIN st
       THEN <<Spread([id |-> i], st[i])>> \o snapshotFrom(st, i + 1)
       ELSE snapshotFrom(st, i + 1)

snapshot(st) == snapshotFrom(st, 1)

\* updateDoc merges the given fields into an existing document
updateDoc(st, id, updates) == [st EXCEPT ![id] = Spread(st[id], updates)]

removeDocs(st, ids) == [i \in DOMAIN st \ ids |-> st[i]]

\* variant: the flag is derived from the wrong action
batchApply_inverted(st, ids, action) ==
  IF action = "delete" THEN removeDocs(st, ids)
  ELSE [i \in DOMAIN st |->
          IF i \in ids THEN Spread(st[i], [isArchived |-> (action = "restore")])
          ELSE st[i]]

batchApply(st, ids, action) ==
  IF action = "delete" THEN removeDocs(st, ids)
  ELSE [i \in DOMAIN st |->
          IF i \in ids THEN Spread(st[i], [isArchived |-> (action = "archive")])
          ELSE st[i]]

(* --------------------------- round trips ------------------------------ *)
\* a handler keeps the authState.isAuthenticated of the render that made it
newOp(kind, caller, args) ==
  Spread([kind |-> kind, stage |-> "write", caller |-> caller, snap |-> <<>>,
          authed |-> isAuthenticated], args)

canStart == Cardinality(ops) < MaxInFlight

\* what the awaiting handler does once its await returns
afterAwait(op) ==
  /\ selectedIds' = IF op.caller = "handleBulk" THEN {} ELSE selectedIds
  /\ isModalOpen' = IF op.caller = "handleSubmit" THEN FALSE ELSE isModalOpen
  /\ isSubmitting' = IF op.caller = "handleSubmit" THEN FALSE ELSE isSubmitting
  /\ UNCHANGED <<download, sessionVars, currentPage, viewMode, showFavoritesOnly, modalMode,
                 formState, queryVars, panelVars>>

\* what does not depend on the store's content at start
InitTable ==
  /\ selectedIds = {}
  /\ currentPage = 1
  /\ viewMode = "active"
  /\ showFavoritesOnly = FALSE
  /\ searchTerm = <<>>
  /\ sortConfig = null

\* the detail panel is closed, no audit is running, no alert was raised
InitPanel ==
  /\ selectedAccount = null
  /\ isAnalyzing = FALSE
  /\ analysis = null
  /\ platformTrends = null
  /\ audit = null
  /\ alert = NoAlert

\* the user is signed in and looks at the account table; isLoadingData is up
\* while the fetch of the mount effect is in flight
InitShell ==
  /\ download = null
  /\ isAuthenticated = TRUE
  /\ isLoadingAuth = FALSE
  /\ authRequest = "none"
  /\ loading = FALSE
  /\ currentView = "accounts"
  /\ isLoadingData = (\E op \in ops : op.stage = "read")

InitForm ==
  /\ isModalOpen = FALSE
  /\ modalMode = "add"
  /\ formState = initialFormState
  /\ isSubmitting = FALSE

\* a document as the entry form created it, and as a bulk action may have left it
createdDoc == addPayload(Spread(initialFormState, [username |-> <<"a">>]))
InitDocs == {createdDoc,
             Spread(createdDoc, [isArchived |-> TRUE]),
             Spread(createdDoc, [isArchived |-> FALSE])}

mountFetch ==
  [kind |-> "fetch", stage |-> "read", caller |-> "effect", snap |-> <<>>, authed |-> TRUE]

\* the session starts on a store of earlier sessions' documents; the
\* effect on authState.isAuthenticated has called fetchAccounts
Init ==
  /\ \E S \in SUBSET Ids : store \in [S -> InitDocs]
  /\ usedIds = DOMAIN store
  /\ data = <<>>
  /\ ops = {mountFetch}
  /\ InitTable
  /\ InitPanel
  /\ InitShell
  /\ InitForm

(* ------------------- AccountTable: selection and view ----------------- *)
\* variant: the size is compared with the whole filtered view
selectAllResult_wholeView(sel, page) ==
  IF Cardinality(sel) = Len(filteredData) THEN {} ELSE idsOf(page)

\* the selection toggleSelectAll sets, given the selection and the page slice
selectAllResult(sel, page) ==
  IF Cardinality(sel) = Len(page) THEN {} ELSE idsOf(page)

toggleSelectAll ==
  /\ selectedIds' = selectAllResult(selectedIds, paginatedData)
  /\ alert' = NoAlert
  /\ UNCHANGED <<shellVars, storeVars, data, ops, currentPage, viewMode, showFavoritesOnly, formVars, queryVars, panelVars>>

toggleSelectOne(id) ==
  /\ id \in idsOf(paginatedData)
  /\ selectedIds' = IF id \in selectedIds THEN selectedIds \ {id} ELSE selectedIds \cup {id}
  /\ alert' = NoAlert
  /\ UNCHANGED <<shellVars, storeVars, data, ops, currentPage, viewMode, showFavoritesOnly, formVars, queryVars, panelVars>>

setViewMode(mode) ==
  /\ viewMode' = mode
  /\ alert' = NoAlert
  /\ UNCHANGED <<shellVars, storeVars, data, ops, selectedIds, currentPage, showFavoritesOnly, formVars, queryVars, panelVars>>

toggleFavoritesOnly ==
  /\ showFavoritesOnly' = ~showFavoritesOnly
  /\ alert' = NoAlert
  /\ UNCHANGED <<shellVars, storeVars, data, ops, selectedIds, currentPage, viewMode, formVars, queryVars, panelVars>>

\* the search box's onChange
setSearchTerm(t) ==
  /\ searchTerm' = t
  /\ alert' = NoAlert
  /\ UNCHANGED <<shellVars, storeVars, data, ops, selectedIds, currentPage, viewMode, showFavoritesOnly,
                 formVars, sortConfig, panelVars>>

\* a click on a sortable column header
handleSort(key) ==
  /\ sortConfig' = [key |-> key,
                    direction |-> IF sortConfig # null /\ sortConfig.key = key
                                       /\ sortConfig.direction = "asc"
                                  THEN "desc" ELSE "asc"]
  /\ alert' = NoAlert
  /\ UNCHANGED <<shellVars, storeVars, data, ops, selectedIds, currentPage, viewMode, showFavoritesOnly,
                 formVars, searchTerm, panelVars>>

prevPage ==
  /\ currentPage # 1
  /\ currentPage' = Max(1, currentPage - 1)
  /\ alert' = NoAlert
  /\ UNCHANGED <<shellVars, storeVars, data, ops, selectedIds, viewMode, showFavoritesOnly, formVars, queryVars, panelVars>>

nextPage ==
  /\ currentPage < totalPages
  /\ currentPage' = Min(IF totalPages = 0 THEN 1 ELSE totalPages, currentPage + 1)
  /\ alert' = NoAlert
  /\ UNCHANGED <<shellVars, storeVars, data, ops, selectedIds, viewMode, showFavoritesOnly, formVars, queryVars, panelVars>>

(* ------------------------ AccountTable: entry form -------------------- *)
TypedNames == {<<"a">>, <<"@", "a">>}

openAddModal ==
  /\ modalMode' = "add"
  /\ formState' = initialFormState
  /\ isModalOpen' = TRUE
  /\ alert' = NoAlert
  /\ UNCHANGED <<shellVars, storeVars, data, ops, tableVars, isSubmitting, queryVars, panelVars>>

openEditModal(account) ==
  /\ modalMode' = "edit"
  /\ formState' = Spread(initialFormState, account)
  /\ isModalOpen' = TRUE
  /\ alert' = NoAlert
  /\ UNCHANGED <<shellVars, storeVars, data, ops, tableVars, isSubmitting, queryVars, panelVars>>

setUsername(u) ==
  /\ isModalOpen
  /\ formState' = Spread(formState, [username |-> u])
  /\ alert' = NoAlert
  /\ UNCHANGED <<shellVars, storeVars, data, ops, tableVars, isModalOpen, modalMode, isSubmitting, queryVars, panelVars>>

closeModal ==
  /\ isModalOpen
  /\ isModalOpen' = FALSE
  /\ alert' = NoAlert
  /\ UNCHANGED <<shellVars, storeVars, data, ops, tableVars, modalMode, formState, isSubmitting, queryVars, panelVars>>

\* what is typed into a number input: an amount in thousandths, or text that
\* is no number (the input emptied)
notANumber == [isNumber |-> FALSE, value |-> 0]
numberText(v) == [isNumber |-> TRUE, value |-> v]

\* parseInt(e.target.value) || 0 : the digits before the decimal point
parseIntOr0(t) ==
  IF ~t.isNumber THEN 0
  ELSE IF t.value >= 0 THEN (t.value \div 1000) * 1000
  ELSE -(((-t.value) \div 1000) * 1000)

\* parseFloat(e.target.value) || 0
parseFloatOr0(t) == IF ~t.isNumber THEN 0 ELSE t.value

setPlatform(p) ==
  /\ isModalOpen
  /\ formState' = Spread(formState, [platform |-> p])
  /\ alert' = NoAlert
  /\ UNCHANGED <<shellVars, storeVars, data, ops, tableVars, isModalOpen, modalMode, isSubmitting, queryVars, panelVars>>

setFollowers(t) ==
  /\ isModalOpen
  /\ formState' = Spread(formState, [followers |-> parseIntOr0(t)])
  /\ alert' = NoAlert
  /\ UNCHANGED <<shellVars, storeVars, data, ops, tableVars, isModalOpen, modalMode, isSubmitting, queryVars, panelVars>>

setEngagementRate(t) ==
  /\ isModalOpen
  /\ formState' = Spread(formState, [engagementRate |-> parseFloatOr0(t)])
  /\ alert' = NoAlert
  /\ UNCHANGED <<shellVars, storeVars, data, ops, tableVars, isModalOpen, modalMode, isSubmitting, queryVars, panelVars>>

\* type="email": empty, or an @ with text on both sides
validEmail(e) == e = <<>> \/ \E i \in 2..(Len(e) - 1) : e[i] = "@"

\* variant: the engagement input has no max
entryFormValid_noMax(form) ==
  /\ form.username # <<>>
  /\ form.followers >= 0 /\ form.followers % 1000 = 0
  /\ form.engagementRate >= 0 /\ form.engagementRate % 100 = 0
  /\ validEmail(form.email)

\* the browser's validation of the entry form before it fires onSubmit:
\* required on the username, min="0" (and the default step of 1) on the
\* followers, min="0" max="100" step="0.1" on the engagement rate
entryFormValid(form) ==
  /\ form.username # <<>>
  /\ form.followers >= 0 /\ form.followers % 1000 = 0
  /\ form.engagementRate >= 0 /\ form.engagementRate <= 100000
       /\ form.engagementRate % 100 = 0
  /\ validEmail(form.email)

handleSubmit ==
  /\ isModalOpen
  /\ ~isSubmitting
  /\ entryFormValid(formState)
  /\ canStart
  /\ isSubmitting' = TRUE
  /\ IF modalMode = "add"
     THEN ops' = ops \cup {newOp("add", "handleSubmit", [payload |-> addPayload(formState)])}
     ELSE /\ Len(currentHistory(data, formState.id)) < MaxHist
          /\ ops' = ops \cup {newOp("update", "handleSubmit",
                                 [id |-> formState.id, payload |-> editPayload(formState, data)])}
  /\ alert' = NoAlert
  /\ UNCHANGED <<shellVars, storeVars, data, tableVars, isModalOpen, modalMode, formState, queryVars, panelVars>>

(* ----------------------- AccountTable: detail panel ------------------- *)
\* the Full Details button of a row
openDetail(user) ==
  /\ selectedAccount' = user
  /\ analysis' = null
  /\ platformTrends' = null
  /\ alert' = NoAlert
  /\ UNCHANGED <<shellVars, storeVars, data, ops, tableVars, formVars, queryVars, isAnalyzing, audit>>

closeDetail ==
  /\ selectedAccount # null
  /\ selectedAccount' = null
  /\ alert' = NoAlert
  /\ UNCHANGED <<shellVars, storeVars, data, ops, tableVars, formVars, queryVars,
                 isAnalyzing, analysis, platformTrends, audit>>

\* the star of the detail panel: onUpdateAccount is called and not awaited
toggleFavorite ==
  /\ selectedAccount # null
  /\ canStart
  /\ ops' = ops \cup {newOp("update", "toggleFavorite",
                         [id |-> selectedAccount.id,
                          payload |-> [isFavorite |-> ~Truthy(selectedAccount, "isFavorite")]])}
  /\ alert' = NoAlert
  /\ UNCHANGED <<shellVars, storeVars, data, tableVars, formVars, queryVars, panelVars>>

\* Run Deep Audit: runAudit up to its first await; analyzeAccount has sent
\* its request
runAudit ==
  /\ selectedAccount # null
  /\ ~isAnalyzing
  /\ isAnalyzing' = TRUE
  /\ audit' = [account |-> selectedAccount, stage |-> "analyze", requests |-> 1]
  /\ alert' = NoAlert
  /\ UNCHANGED <<shellVars, storeVars, data, ops, tableVars, formVars, queryVars,
                 selectedAccount, analysis, platformTrends>>

\* the request of analyzeAccount ends with outcome r: runAudit goes on to
\* setAnalysis and calls getPlatformTrends, which sends its request
analyzeResolves(r) ==
  /\ audit # null
  /\ audit.stage = "analyze"
  /\ IF analyzeAccount(r).throws
     THEN audit' = null /\ UNCHANGED analysis
     ELSE /\ analysis' = analyzeAccount(r).value
          /\ audit' = [audit EXCEPT !.stage = "trends"]
  /\ alert' = NoAlert
  /\ UNCHANGED <<shellVars, storeVars, data, ops, tableVars, formVars, queryVars,
                 selectedAccount, isAnalyzing, platformTrends>>

\* the request of getPlatformTrends ends with outcome r: runAudit goes on to
\* setPlatformTrends and setIsAnalyzing(false)
trendsResolves(r) ==
  /\ audit # null
  /\ audit.stage = "trends"
  /\ audit' = null
  /\ IF getPlatformTrends(r).throws
     THEN UNCHANGED <<platformTrends, isAnalyzing>>
     ELSE /\ platformTrends' = getPlatformTrends(r).value
          /\ isAnalyzing' = FALSE
  /\ alert' = NoAlert
  /\ UNCHANGED <<shellVars, storeVars, data, ops, tableVars, formVars, queryVars,
                 selectedAccount, analysis>>

(* ------------------------ AccountTable: CSV export -------------------- *)
\* Array.prototype.join: the elements with the separator between them
RECURSIVE join(_, _)
join(parts, sep) ==
  IF parts = <<>> THEN <<>>
  ELSE IF Len(parts) = 1 THEN parts[1]
  ELSE parts[1] \o <<sep>> \o join(Tail(parts), sep)

\* a number as join writes it; numbers are held in thousandths
DigitChars == <<"0", "1", "2", "3", "4", "5", "6", "7", "8", "9">>

RECURSIVE digits(_)
digits(n) ==
  IF n < 10 THEN <<DigitChars[n + 1]>>
  ELSE digits(n \div 10) \o <<DigitChars[(n % 10) + 1]>>

RECURSIVE fraction(_)
fraction(f) ==
  IF f % 10 = 0 THEN fraction(f \div 10) ELSE digits(f)

numberToString(n) ==
  LET a == IF n < 0 THEN -n ELSE n
  IN (IF n < 0 THEN <<"-">> ELSE <<>>)
       \o digits(a \div 1000)
       \o (IF a % 1000 = 0 THEN <<>>
           ELSE <<".">> \o (IF a % 1000 < 10 THEN <<"0", "0">>
                            ELSE IF a % 1000 < 100 THEN <<"0">> ELSE <<>>)
                       \o fraction(a % 1000))

\* a string field as join writes it: undefined becomes ''
fieldText(u, f) == IF f \in DOMAIN u THEN u[f] ELSE <<>>

csvHeaders ==
  <<<<"I", "D">>,
    <<"U", "s", "e", "r", "n", "a", "m", "e">>,
    <<"P", "l", "a", "t", "f", "o", "r", "m">>,
    <<"F", "o", "l", "l", "o", "w", "e", "r", "s">>,
    <<"M", "a", "n", "a", "g", "e", "r">>,
    <<"S", "t", "a", "t", "u", "s">>,
    <<"E", "m", "a", "i", "l">>>>

csvRow(u) ==
  join(<<digits(u.id), fieldText(u, "username"), fieldText(u, "platform"),
         IF "followers" \in DOMAIN u THEN numberToString(u.followers) ELSE <<>>,
         fieldText(u, "accountManager"), fieldText(u, "status"),
         fieldText(u, "email")>>, ",")

\* variant: the export always takes the filtered view
exportSource_viewOnly(sel) == filteredData

\* the records handleExport writes, given the selection
exportSource(sel) ==
  IF Cardinality(sel) > 0
  THEN SelectSeq(data, LAMBDA d : d.id \in sel)
  ELSE filteredData

csvOf(source) ==
  join(<<join(csvHeaders, ",")>> \o [k \in 1..Len(source) |-> csvRow(source[k])], "\n")

handleExport ==
  /\ download' = [text |-> csvOf(exportSource(selectedIds))]
  /\ alert' = NoAlert
  /\ UNCHANGED <<sessionVars, isLoadingData, storeVars, data, ops, tableVars, formVars,
                 queryVars, panelVars>>

(* --------------------- AccountTable: delete and bulk ------------------ *)
\* variant: the row is taken out of the collection before deleteDoc is sent
handleDelete_optimistic(id) ==
  /\ id \in idsOf(paginatedData)
  /\ canStart
  /\ ops' = ops \cup {newOp("delete", "handleDelete", [id |-> id])}
  /\ data' = SelectSeq(data, LAMBDA d : d.id # id)
  /\ alert' = NoAlert
  /\ UNCHANGED <<shellVars, storeVars, tableVars, formVars, queryVars, panelVars>>

handleDelete(id) ==
  /\ id \in idsOf(paginatedData)
  /\ canStart
  /\ ops' = ops \cup {newOp("delete", "handleDelete", [id |-> id])}
  /\ alert' = NoAlert
  /\ UNCHANGED <<shellVars, storeVars, data, tableVars, formVars, queryVars, panelVars>>

handleBulk(action) ==
  /\ selectedIds # {}
  /\ action = "archive" => viewMode = "active"
  /\ action = "restore" => viewMode = "archived"
  /\ canStart
  /\ ops' = ops \cup {newOp("bulk", "handleBulk", [ids |-> selectedIds, action |-> action])}
  /\ alert' = NoAlert
  /\ UNCHANGED <<shellVars, storeVars, data, tableVars, formVars, queryVars, panelVars>>

(* ----------------------- App: store round trips ----------------------- *)
\* the write is applied and the handler calls fetchAccounts
\* fetchAccounts returns at once when its authState.isAuthenticated is false
toFetch(op) == Spread(op, [stage |-> IF op.authed THEN "read" ELSE "skipped"])

\* undisturbed is a history field of a bulk round trip, read by the properties
\* only: no other write has been applied since its commit.  It is frozen once
\* getDocs has read the store.

disturb(o) ==
  IF o.stage = "read" /\ "undisturbed" \in DOMAIN o
  THEN Spread(o, [undisturbed |-> FALSE])
  ELSE o

afterWrite(op, committed) == {disturb(o) : o \in ops \ {op}} \cup {committed}


handleAddAccount(op) ==
  /\ op.kind = "add" /\ op.stage = "write"
  /\ \E id \in Ids \ usedIds :
       /\ store' = (id :> op.payload) @@ store
       /\ usedIds' = usedIds \cup {id}
  /\ ops' = afterWrite(op, toFetch(op))
  /\ isLoadingData' = (op.authed \/ isLoadingData)
  /\ alert' = NoAlert
  /\ UNCHANGED <<download, sessionVars, data, tableVars, formVars, queryVars, panelVars>>

handleUpdateAccount(op) ==
  /\ op.kind = "update" /\ op.stage = "write"
  /\ op.id \in DOMAIN store
  /\ store' = updateDoc(store, op.id, op.payload)
  /\ ops' = afterWrite(op, toFetch(op))
  /\ isLoadingData' = (op.authed \/ isLoadingData)
  /\ alert' = NoAlert
  /\ UNCHANGED <<download, sessionVars, usedIds, data, tableVars, formVars, queryVars, panelVars>>

\* variant: fetchAccounts is not held back until deleteDoc has resolved
handleDeleteAccount_noAwait(op) ==
  /\ op.kind = "delete" /\ op.stage = "write"
  /\ store' = removeDocs(store, {op.id})
  /\ ops' = afterWrite(op, Spread(toFetch(op), [stage |-> "resolve", snap |-> snapshot(store)]))
  /\ isLoadingData' = (op.authed \/ isLoadingData)
  /\ alert' = NoAlert
  /\ UNCHANGED <<download, sessionVars, usedIds, data, tableVars, formVars, queryVars, panelVars>>

handleDeleteAccount(op) ==
  /\ op.kind = "delete" /\ op.stage = "write"
  /\ store' = removeDocs(store, {op.id})
  /\ ops' = afterWrite(op, toFetch(op))
  /\ isLoadingData' = (op.authed \/ isLoadingData)
  /\ alert' = NoAlert
  /\ UNCHANGED <<download, sessionVars, usedIds, data, tableVars, formVars, queryVars, panelVars>>

handleBulkAction(op) ==
  /\ op.kind = "bulk" /\ op.stage = "write"
  /\ op.action # "delete" => op.ids \subseteq DOMAIN store
  /\ store' = batchApply(store, op.ids, op.action)
  /\ ops' = afterWrite(op, Spread(toFetch(op), [undisturbed |-> TRUE]))
  /\ isLoadingData' = (op.authed \/ isLoadingData)
  /\ alert' = NoAlert
  /\ UNCHANGED <<download, sessionVars, usedIds, data, tableVars, formVars, queryVars, panelVars>>

\* the message of the alert in the catch block of each mutation handler
alertOf(kind) ==
  CASE kind = "add" -> "Failed to add account."
    [] kind = "update" -> "Failed to update account."
    [] kind = "delete" -> "Failed to delete account."
    [] kind = "bulk" -> "Bulk operation failed."

\* the store rejects the write: console.error, alert, the handler returns
writeRejected(op) ==
  /\ op.stage = "write"
  /\ ops' = ops \ {op}
  /\ afterAwait(op)
  /\ alert' = alertOf(op.kind)
  /\ UNCHANGED <<storeVars, data, isLoadingData>>

\* the store serves getDocs
getDocs(op) ==
  /\ op.stage = "read"
  /\ ops' = (ops \ {op}) \cup {Spread(op, [stage |-> "resolve", snap |-> snapshot(store)])}
  /\ alert' = NoAlert
  /\ UNCHANGED <<shellVars, storeVars, data, tableVars, formVars, queryVars, panelVars>>

\* variant: a fetch that resolves while another round trip is in flight is dropped
fetchAccounts_dropOverlapped(op) ==
  /\ op.stage = "resolve"
  /\ data' = IF ops = {op} THEN op.snap ELSE data
  /\ ops' = ops \ {op}
  /\ afterAwait(op)
  /\ isLoadingData' = FALSE
  /\ alert' = NoAlert
  /\ UNCHANGED storeVars

\* variant: the fetched records are added to the collection
fetchAccounts_merge(op) ==
  /\ op.stage = "resolve"
  /\ data' = data \o op.snap
  /\ ops' = ops \ {op}
  /\ afterAwait(op)
  /\ isLoadingData' = FALSE
  /\ alert' = NoAlert
  /\ UNCHANGED storeVars

fetchAccounts(op) ==
  /\ op.stage = "resolve"
  /\ data' = op.snap
  /\ ops' = ops \ {op}
  /\ afterAwait(op)
  /\ isLoadingData' = FALSE
  /\ alert' = NoAlert
  /\ UNCHANGED storeVars

fetchRejected(op) ==
  /\ op.stage \in {"read", "resolve"}
  /\ ops' = ops \ {op}
  /\ afterAwait(op)
  /\ isLoadingData' = FALSE
  /\ alert' = NoAlert
  /\ UNCHANGED <<storeVars, data>>

(* ------------------------- App: session and views --------------------- *)
\* what App renders: the spinner until the first session notification, the
\* login view while no user is signed in, the current view otherwise
screen ==
  IF isLoadingAuth THEN "spinner"
  ELSE IF ~isAuthenticated THEN "login"
  ELSE currentView

\* renderContent puts the account table on screen, not the loading spinner
tableShown == screen = "accounts" /\ ~(isLoadingData /\ data = <<>>)

\* a handler of an unmounted AccountTable sets no state any more
orphan(op) == IF op.caller = "effect" THEN op ELSE Spread(op, [caller |-> "unmounted"])

\* AccountTable is unmounted; its next mount starts from the initial state
unmountAccountTable ==
  /\ selectedIds' = {}
  /\ currentPage' = 1
  /\ viewMode' = "active"
  /\ showFavoritesOnly' = FALSE
  /\ searchTerm' = <<>>
  /\ sortConfig' = null
  /\ isModalOpen' = FALSE
  /\ modalMode' = "add"
  /\ formState' = initialFormState
  /\ isSubmitting' = FALSE
  /\ selectedAccount' = null
  /\ isAnalyzing' = FALSE
  /\ analysis' = null
  /\ platformTrends' = null
  /\ audit' = null

\* Login: the sign-in form is submitted
loginSubmit ==
  /\ screen = "login"
  /\ ~loading
  /\ authRequest = "none"
  /\ loading' = TRUE
  /\ authRequest' = "signIn"
  /\ alert' = NoAlert
  /\ UNCHANGED <<download, isAuthenticated, isLoadingAuth, currentView, isLoadingData,
                 storeVars, data, ops, tableVars, formVars, queryVars, panelVars>>

\* the auth service rejects the sign-in: catch sets the error, finally lowers
\* the flag
signInRejected_noFinally ==
  /\ authRequest = "signIn"
  /\ authRequest' = "none"
  /\ alert' = NoAlert
  /\ UNCHANGED <<download, isAuthenticated, isLoadingAuth, loading, currentView, isLoadingData,
                 storeVars, data, ops, tableVars, formVars, queryVars, panelVars>>

signInRejected ==
  /\ authRequest = "signIn"
  /\ loading' = FALSE
  /\ authRequest' = "none"
  /\ alert' = NoAlert
  /\ UNCHANGED <<download, isAuthenticated, isLoadingAuth, currentView, isLoadingData,
                 storeVars, data, ops, tableVars, formVars, queryVars, panelVars>>

\* Sidebar: log out
handleLogout ==
  /\ screen \notin {"spinner", "login"}
  /\ authRequest = "none"
  /\ authRequest' = "signOut"
  /\ alert' = NoAlert
  /\ UNCHANGED <<download, isAuthenticated, isLoadingAuth, loading, currentView, isLoadingData,
                 storeVars, data, ops, tableVars, formVars, queryVars, panelVars>>

\* the session subscription reports a user (user = TRUE) or none: the first
\* notification, an accepted sign-in, or a sign-out.  With a user reported
\* the effect on authState.isAuthenticated calls fetchAccounts; with none
\* App renders Login in place of the views.
authStateChanged(user) ==
  /\ \/ authRequest = "init"
     \/ authRequest = "signIn" /\ user
     \/ authRequest = "signOut" /\ ~user
  /\ authRequest' = "none"
  /\ isAuthenticated' = user
  /\ isLoadingAuth' = FALSE
  /\ loading' = FALSE
  /\ alert' = NoAlert
  /\ IF user /\ ~isAuthenticated
     THEN /\ canStart
          /\ mountFetch \notin ops
          /\ ops' = ops \cup {mountFetch}
          /\ isLoadingData' = TRUE
          /\ UNCHANGED <<tableVars, formVars, queryVars, panelVars>>
     ELSE IF ~user /\ isAuthenticated
     THEN /\ ops' = {orphan(op) : op \in ops}
          /\ unmountAccountTable
          /\ UNCHANGED isLoadingData
     ELSE UNCHANGED <<ops, isLoadingData, tableVars, formVars, queryVars, panelVars>>
  /\ UNCHANGED <<download, currentView, storeVars, data>>

\* Sidebar: another view is chosen
setCurrentView(view) ==
  /\ screen \notin {"spinner", "login"}
  /\ currentView' = view
  /\ alert' = NoAlert
  /\ IF currentView = "accounts" /\ view # "accounts"
     THEN /\ ops' = {orphan(op) : op \in ops}
          /\ unmountAccountTable
     ELSE UNCHANGED <<ops, tableVars, formVars, queryVars, panelVars>>
  /\ UNCHANGED <<download, isAuthenticated, isLoadingAuth, authRequest, loading, isLoadingData,
                 storeVars, data>>

(* --------------------------- specifications --------------------------- *)
\* round trips, selection, single delete and bulk actions on existing documents
Next ==
  \/ toggleSelectAll
  \/ \E id \in Ids : toggleSelectOne(id)
  \/ \E mode \in {"active", "archived"} : setViewMode(mode)
  \/ \E id \in Ids : handleDelete(id)
  \/ \E action \in {"archive", "restore", "delete"} : handleBulk(action)
  \/ \E op \in ops : handleDeleteAccount(op)
  \/ \E op \in ops : handleBulkAction(op)
  \/ \E op \in ops : writeRejected(op)
  \/ \E op \in ops : getDocs(op)
  \/ \E op \in ops : fetchAccounts(op)
  \/ \E op \in ops : fetchRejected(op)

Spec == Init /\ [][Next]_vars

\* the entry form: add and edit submissions and their round trips, one at a
\* time, from the state in which the first fetch has shown an empty store
InitEmpty ==
  /\ store = <<>>
  /\ usedIds = {}
  /\ data = <<>>
  /\ ops = {}
  /\ InitTable
  /\ InitPanel
  /\ InitShell
  /\ InitForm

NextForm ==
  \/ openAddModal
  \/ \E i \in 1..Len(paginatedData) : openEditModal(paginatedData[i])
  \/ \E u \in TypedNames : setUsername(u)
  \/ closeModal
  \/ handleSubmit
  \/ \E op \in ops : handleAddAccount(op)
  \/ \E op \in ops : handleUpdateAccount(op)
  \/ \E op \in ops : writeRejected(op)
  \/ \E op \in ops : getDocs(op)
  \/ \E op \in ops : fetchAccounts(op)
  \/ \E op \in ops : fetchRejected(op)

SpecForm == InitEmpty /\ [][NextForm]_vars

\* selection and paging over a collection of more than one page
InitSel ==
  /\ \E n \in 0..MaxActive, a \in 0..MaxArchived :
       store = [i \in 1..(a + n) |->
                  IF i <= a THEN Spread(createdDoc, [isArchived |-> TRUE]) ELSE createdDoc]
  /\ usedIds = DOMAIN store
  /\ data = [i \in DOMAIN store |-> Spread([id |-> i], store[i])]
  /\ ops = {}
  /\ InitTable
  /\ InitPanel
  /\ InitShell
  /\ InitForm

NextSel ==
  \/ toggleSelectAll
  \/ \E id \in idsOf(data) : toggleSelectOne(id)
  \/ \E mode \in {"active", "archived"} : setViewMode(mode)
  \/ prevPage
  \/ nextPage

SpecSel == InitSel /\ [][NextSel]_vars

\* the derived view of every small collection
InitView ==
  /\ \E n \in 0..MaxRecs : store \in [1..n -> InitDocs]
  /\ usedIds = DOMAIN store
  /\ data = [i \in DOMAIN store |-> Spread([id |-> i], store[i])]
  /\ ops = {}
  /\ InitTable
  /\ InitPanel
  /\ InitShell
  /\ InitForm

NextView ==
  \/ \E mode \in {"active", "archived"} : setViewMode(mode)
  \/ toggleFavoritesOnly

SpecView == InitView /\ [][NextView]_vars

\* one submission of the entry form, for every username that can be typed
Chars == {"@", "a"}
Usernames == UNION {[1..n -> Chars] : n \in 0..MaxLen}

InitNorm ==
  /\ store = (1 :> createdDoc)
  /\ usedIds = {1}
  /\ data = snapshot(store)
  /\ ops = {}
  /\ InitTable
  /\ InitPanel
  /\ InitShell
  /\ isModalOpen = TRUE
  /\ isSubmitting = FALSE
  /\ modalMode \in {"add", "edit"}
  /\ \E u \in Usernames :
       formState = Spread(IF modalMode = "add" THEN initialFormState
                          ELSE Spread(initialFormState, data[1]),
                          [username |-> u])

NextNorm ==
  \/ handleSubmit
  \/ \E op \in ops : handleAddAccount(op)
  \/ \E op \in ops : handleUpdateAccount(op)
  \/ \E op \in ops : writeRejected(op)
  \/ \E op \in ops : getDocs(op)
  \/ \E op \in ops : fetchAccounts(op)
  \/ \E op \in ops : fetchRejected(op)

SpecNorm == InitNorm /\ [][NextNorm]_vars

\* the activity log under edits and favorite toggles that overlap, from a
\* store of one document that the first fetch has shown
InitLog ==
  /\ store = (1 :> createdDoc)
  /\ usedIds = {1}
  /\ data = snapshot(store)
  /\ ops = {}
  /\ InitTable
  /\ InitPanel
  /\ InitShell
  /\ InitForm

NextLog ==
  \/ \E i \in 1..Len(paginatedData) : openDetail(paginatedData[i])
  \/ toggleFavorite
  \/ \E i \in 1..Len(paginatedData) : openEditModal(paginatedData[i])
  \/ handleSubmit
  \/ \E op \in ops : handleUpdateAccount(op)
  \/ \E op \in ops : writeRejected(op)
  \/ \E op \in ops : getDocs(op)
  \/ \E op \in ops : fetchAccounts(op)
  \/ \E op \in ops : fetchRejected(op)

SpecLog == InitLog /\ [][NextLog]_vars

\* the detail panel and the audit over a fetched collection of two records
InitAudit ==
  /\ store = (1 :> createdDoc) @@ (2 :> Spread(createdDoc, [platform |-> TikTok]))
  /\ usedIds = {1, 2}
  /\ data = snapshot(store)
  /\ ops = {}
  /\ InitTable
  /\ InitPanel
  /\ InitShell
  /\ InitForm

NextAudit ==
  \/ \E i \in 1..Len(paginatedData) : openDetail(paginatedData[i])
  \/ closeDetail
  \/ runAudit
  \/ audit # null /\ \E r \in AnalyzeResponses(audit.account) : analyzeResolves(r)
  \/ audit # null /\ \E r \in TrendResponses(audit.account.platform) : trendsResolves(r)

SpecAudit == InitAudit /\ [][NextAudit]_vars

\* every mutation and its refresh, one round trip at a time: the user starts
\* the next one when the last one has resolved; the store starts with one
\* document, which the first fetch has shown, and the user stays in the view
\* mode chosen by then
InitSync ==
  /\ store \in [{1} -> InitDocs]
  /\ usedIds = DOMAIN store
  /\ data = snapshot(store)
  /\ ops = {}
  /\ selectedIds = {}
  /\ currentPage = 1
  /\ viewMode \in {"active", "archived"}
  /\ showFavoritesOnly = FALSE
  /\ searchTerm = <<>>
  /\ sortConfig = null
  /\ InitPanel
  /\ InitShell
  /\ InitForm

NextSync ==
  \/ toggleSelectAll
  \/ openAddModal
  \/ \E i \in 1..Len(paginatedData) : openEditModal(paginatedData[i])
  \/ \E u \in {<<"a">>} : setUsername(u)
  \/ ops = {} /\ handleSubmit
  \/ ops = {} /\ \E id \in Ids : handleDelete(id)
  \/ ops = {} /\ \E action \in {"archive", "restore", "delete"} : handleBulk(action)
  \/ \E op \in ops : handleAddAccount(op)
  \/ \E op \in ops : handleUpdateAccount(op)
  \/ \E op \in ops : handleDeleteAccount(op)
  \/ \E op \in ops : handleBulkAction(op)
  \/ \E op \in ops : writeRejected(op)
  \/ \E op \in ops : getDocs(op)
  \/ \E op \in ops : fetchAccounts(op)
  \/ \E op \in ops : fetchRejected(op)

SpecSync == InitSync /\ [][NextSync]_vars

\* searching and sorting a fetched collection: the documents differ in the
\* searched fields, in the sort keys and in the flags; some were written
\* without the optional fields
without(doc, f) == [g \in DOMAIN doc \ {f} |-> doc[g]]

QueryDocs ==
  {Spread(createdDoc, [username |-> <<"A", "b">>, engagementRate |-> 5000]),
   Spread(createdDoc, [username |-> <<"a", "b">>, platform |-> TikTok,
                       accountManager |-> <<"B">>, engagementRate |-> 4999,
                       isFavorite |-> TRUE]),
   Spread(without(createdDoc, "accountManager"),
          [username |-> <<"b">>, platform |-> LinkedIn, realName |-> <<"A", "b">>]),
   Spread(without(without(createdDoc, "realName"), "email"),
          [username |-> <<"a", "b">>, accountManager |-> <<"a">>,
           engagementRate |-> 5000, isFavorite |-> FALSE]),
   Spread(createdDoc, [email |-> <<"b", "@", "a">>, accountManager |-> <<"B">>,
                       isArchived |-> TRUE, isFavorite |-> TRUE])}

SearchTerms == {<<>>, <<"a">>, <<"A", "B">>, <<"T", "w">>, <<"@">>}
SortKeys == {"username", "accountManager"}

InitQuery ==
  /\ \E n \in 0..MaxRecs : store \in [1..n -> QueryDocs]
  /\ usedIds = DOMAIN store
  /\ data = [i \in DOMAIN store |-> Spread([id |-> i], store[i])]
  /\ ops = {}
  /\ InitTable
  /\ InitPanel
  /\ InitShell
  /\ InitForm

NextQuery ==
  \/ \E t \in SearchTerms : setSearchTerm(t)
  \/ \E key \in SortKeys : handleSort(key)
  \/ \E mode \in {"active", "archived"} : setViewMode(mode)
  \/ toggleFavoritesOnly

SpecQuery == InitQuery /\ [][NextQuery]_vars

\* the entry form is open, to add a record or to edit the stored one; it is
\* filled in and submitted once
TypedFollowers == {notANumber, numberText(-1000), numberText(1500), numberText(2000)}
TypedRates == {notANumber, numberText(-100), numberText(4999), numberText(5000), numberText(100100)}

InitValid ==
  /\ store = (1 :> createdDoc)
  /\ usedIds = DOMAIN store
  /\ data = snapshot(store)
  /\ ops = {}
  /\ InitTable
  /\ InitPanel
  /\ InitShell
  /\ isModalOpen = TRUE
  /\ isSubmitting = FALSE
  /\ modalMode \in {"add", "edit"}
  /\ formState = IF modalMode = "add" THEN initialFormState
                 ELSE Spread(initialFormState, data[1])

NextValid ==
  \/ \E u \in {<<>>, <<"a">>} : setUsername(u)
  \/ \E p \in {Twitter, TikTok} : setPlatform(p)
  \/ \E t \in TypedFollowers : setFollowers(t)
  \/ \E t \in TypedRates : setEngagementRate(t)
  \/ ops = {} /\ handleSubmit
  \/ \E op \in ops : handleAddAccount(op)
  \/ \E op \in ops : handleUpdateAccount(op)
  \/ \E op \in ops : writeRejected(op)
  \/ \E op \in ops : getDocs(op)
  \/ \E op \in ops : fetchAccounts(op)
  \/ \E op \in ops : fetchRejected(op)

SpecValid == InitValid /\ [][NextValid]_vars

\* selecting rows, filtering the view and exporting; the documents are an
\* active one, one without account manager and an archived one with an email
ExportDocs == {d \in QueryDocs : d.username # <<"a", "b">>}

InitExport ==
  /\ \E n \in 0..MaxRecs : store \in [1..n -> ExportDocs]
  /\ usedIds = DOMAIN store
  /\ data = [i \in DOMAIN store |-> Spread([id |-> i], store[i])]
  /\ ops = {}
  /\ InitTable
  /\ InitPanel
  /\ InitShell
  /\ InitForm

NextExport ==
  \/ toggleSelectAll
  \/ \E id \in idsOf(data) : toggleSelectOne(id)
  \/ \E t \in {<<>>, <<"a">>} : setSearchTerm(t)
  \/ \E mode \in {"active", "archived"} : setViewMode(mode)
  \/ toggleFavoritesOnly
  \/ handleExport

SpecExport == InitExport /\ [][NextExport]_vars

\* the session from the start of the program: sign-in, sign-out, the views,
\* and single deletes from the account table
InitAuth ==
  /\ \E S \in SUBSET Ids : store \in [S -> InitDocs]
  /\ usedIds = DOMAIN store
  /\ data = <<>>
  /\ ops = {}
  /\ InitTable
  /\ InitPanel
  /\ InitForm
  /\ download = null
  /\ isAuthenticated = FALSE
  /\ isLoadingAuth = TRUE
  /\ authRequest = "init"
  /\ loading = FALSE
  /\ currentView = "dashboard"
  /\ isLoadingData = FALSE

NextAuth ==
  \/ \E user \in BOOLEAN : authStateChanged(user)
  \/ loginSubmit
  \/ signInRejected
  \/ handleLogout
  \/ \E view \in {"dashboard", "accounts", "settings"} : setCurrentView(view)
  \/ tableShown /\ \E id \in Ids : handleDelete(id)
  \/ \E op \in ops : handleDeleteAccount(op)
  \/ \E op \in ops : writeRejected(op)
  \/ \E op \in ops : getDocs(op)
  \/ \E op \in ops : fetchAccounts(op)
  \/ \E op \in ops : fetchRejected(op)

SpecAuth == InitAuth /\ [][NextAuth]_vars

\* every operation of the account table on a collection of two pages; the
\* store holds eleven active documents and an archived one, the id of a
\* further one is free; one mutation is started at a time, and none after
\* one was applied
FrameIds == 2..(ITEMS_PER_PAGE + 3)
FrameStore ==
  [i \in FrameIds |-> IF i = 2 THEN Spread(createdDoc, [isArchived |-> TRUE]) ELSE createdDoc]
canMutate == ops = {} /\ store = FrameStore

InitFrame ==
  /\ store = FrameStore
  /\ usedIds = DOMAIN store
  /\ data = snapshot(store)
  /\ ops = {}
  /\ InitTable
  /\ InitPanel
  /\ InitShell
  /\ InitForm

NextFrame ==
  \/ toggleSelectAll
  \/ \E t \in {<<>>, <<"a">>} : setSearchTerm(t)
  \/ toggleFavoritesOnly
  \/ \E mode \in {"active", "archived"} : setViewMode(mode)
  \/ handleSort("username")
  \/ prevPage
  \/ nextPage
  \/ canMutate /\ openAddModal
  \/ canMutate /\ data # <<>> /\ openEditModal(data[1])
  \/ \E u \in {<<"a">>} : setUsername(u)
  \/ canMutate /\ handleSubmit
  \/ canMutate /\ \E id \in {2, 3} : handleDelete(id)
  \/ canMutate /\ \E action \in {"archive", "restore", "delete"} : handleBulk(action)
  \/ \E op \in ops : handleAddAccount(op)
  \/ \E op \in ops : handleUpdateAccount(op)
  \/ \E op \in ops : handleDeleteAccount(op)
  \/ \E op \in ops : handleBulkAction(op)
  \/ \E op \in ops : writeRejected(op)
  \/ \E op \in ops : getDocs(op)
  \/ \E op \in ops : fetchAccounts(op)
  \/ \E op \in ops : fetchRejected(op)

SpecFrame == InitFrame /\ [][NextFrame]_vars

(* ------------------------------ claims -------------------------------- *)
activeView(d) == filteredDataOf(d, "active", FALSE)
archivedView(d) == filteredDataOf(d, "archived", FALSE)

\* C1: with no search term and favorites-only off, the active and the archived
\* view of the collection are disjoint and together hold every record exactly
\* once, |active| + |archived| = |collection|; a record without isArchived is
\* in the active view only.
C1_ViewsPartition ==
  /\ Len(activeView(data)) + Len(archivedView(data)) = Len(data)
  /\ idsOf(activeView(data)) \cap idsOf(archivedView(data)) = {}
  /\ idsOf(activeView(data)) \cup idsOf(archivedView(data)) = idsOf(data)
  /\ \A i \in 1..Len(data) :
       "isArchived" \notin DOMAIN data[i] =>
         /\ data[i].id \in idsOf(activeView(data))
         /\ data[i].id \notin idsOf(archivedView(data))

C1_Witness ==
  \E i, j, k \in 1..Len(data) :
    /\ "isArchived" \notin DOMAIN data[i]
    /\ Truthy(data[j], "isArchived")
    /\ "isArchived" \in DOMAIN data[k] /\ data[k].isArchived = FALSE

\* C2 as stated: from every selection, two toggleSelectAll in a row on an
\* unchanged page give back the selection the first one started from.
C2_TwiceRestoresAny ==
  [][toggleSelectAll =>
       selectAllResult(selectedIds', paginatedData') = selectedIds]_vars

\* C2 amended: two toggleSelectAll in a row on an unchanged page give back the
\* starting selection when it was empty or exactly the ids of the page's rows.
C2_TwiceRestores ==
  [][(toggleSelectAll /\ selectedIds \in {{}, idsOf(paginatedData)}) =>
       selectAllResult(selectedIds', paginatedData') = selectedIds]_vars

C2_Witness ==
  /\ Len(filteredData) > ITEMS_PER_PAGE
  /\ currentPage = 1
  /\ selectedIds = idsOf(paginatedData)

\* C3: toggleSelectAll clears the selection exactly when every row of the page
\* slice is selected, and otherwise sets it to exactly the ids of the page slice.
C3_ClearsIffAllSelected ==
  [][toggleSelectAll =>
       selectedIds' = IF idsOf(paginatedData) \subseteq selectedIds
                      THEN {}
                      ELSE idsOf(paginatedData)]_vars

submitted == {op \in ops : op.caller = "handleSubmit"}

\* C8: the username sent to the store on submit starts with '@': an input
\* without a leading '@' gets exactly one '@' prepended, an input starting with
\* '@' is sent unchanged, and normalising what was sent changes nothing.
C8_UsernameNormalized ==
  \A op \in submitted :
    LET typed == formState.username
        sent == op.payload.username
    IN /\ Len(sent) > 0 /\ sent[1] = "@"
       /\ (Len(typed) > 0 /\ typed[1] = "@") => sent = typed
       /\ ~(Len(typed) > 0 /\ typed[1] = "@") => sent = <<"@">> \o typed
       /\ normalizeUsername(sent) = sent

C8_Witness ==
  \E op \in submitted :
    /\ formState.username = <<"a", "@">>
    /\ op.payload.username = <<"@", "a", "@">>

\* the records as the add form creates them: in flight, or stored and never edited
asCreated ==
  {op.payload : op \in {o \in submitted : o.kind = "add"}}
    \cup {store[i] : i \in {j \in DOMAIN store : store[j].history = <<"Account Created">>}}

\* C9: a record created through the add form is sent with an activity log of
\* exactly one entry, 'Account Created', and with an avatar URL that depends on
\* the normalized username only.
C9_CreatedLogAndAvatar ==
  /\ \A op \in submitted :
       op.kind = "add" =>
         /\ Len(op.payload.history) = 1
         /\ op.payload.history[1] = "Account Created"
  /\ \A r1, r2 \in asCreated : r1.username = r2.username => r1.avatar = r2.avatar

C9_Witness ==
  /\ formState.username = <<"@", "a">>
  /\ \E i \in DOMAIN store : i # 1 /\ store[i].username = store[1].username

isBulkArchive(op) == op.kind = "bulk" /\ op.action = "archive"

\* the commit changes the archived flag of the targeted documents only
bulkArchiveCommit(op) ==
  /\ DOMAIN store' = DOMAIN store
  /\ \A i \in DOMAIN store :
       IF i \in op.ids THEN Truthy(store'[i], "isArchived") ELSE store'[i] = store[i]

\* the refresh shows every targeted record archived, and the selection is empty
bulkArchiveRefresh(op) ==
  /\ op.ids \cap idsOf(activeView(data')) = {}
  /\ op.ids \subseteq idsOf(archivedView(data'))
  /\ selectedIds' = {}

\* C4 as stated: the commit of a bulk archive changes no archived flag but the
\* targeted records', and when its refresh is applied every targeted record is
\* out of the active view and in the archived view, and the selection is empty.
C4_BulkArchiveAlways ==
  [][\A op \in ops :
       /\ (isBulkArchive(op) /\ handleBulkAction(op)) => bulkArchiveCommit(op)
       /\ (isBulkArchive(op) /\ op.stage = "resolve" /\ fetchAccounts(op))
            => bulkArchiveRefresh(op)]_vars

\* C4 amended: the same, for a refresh that read the store with no other write
\* applied since the commit of the bulk archive.
C4_BulkArchive ==
  [][\A op \in ops :
       /\ (isBulkArchive(op) /\ handleBulkAction(op)) => bulkArchiveCommit(op)
       /\ (isBulkArchive(op) /\ op.stage = "resolve" /\ op.undisturbed /\ fetchAccounts(op))
            => bulkArchiveRefresh(op)]_vars

C4_Witness ==
  \E op \in ops :
    /\ isBulkArchive(op) /\ op.stage = "resolve" /\ op.undisturbed
    /\ op.ids \subseteq idsOf(activeView(data))
    /\ op.ids \subseteq idsOf(archivedView(op.snap))
    /\ idsOf(op.snap) \ op.ids # {}
    /\ selectedIds # {}

\* C5: when the store rejects a bulk archive, restore or delete, the in-memory
\* collection and the selection set are left as they were.
C5_BulkFailureKeepsState ==
  [][\A op \in ops :
       (op.kind = "bulk" /\ writeRejected(op))
         => (data' = data /\ selectedIds' = selectedIds)]_vars

\* C6: when the store rejects an add or an edit submitted from the form, the
\* form controller does not go on as after an accepted submission: the modal
\* it has open stays open.
C6_RejectedSubmitKeepsModal ==
  [][\A op \in ops :
       (op.caller = "handleSubmit" /\ writeRejected(op))
         => isModalOpen' = isModalOpen]_vars

deleted(r) == r \in usedIds \ DOMAIN store
gone(r) == deleted(r) /\ r \notin idsOf(data)
deletes(op, r) ==
  \/ op.kind = "delete" /\ op.id = r
  \/ op.kind = "bulk" /\ op.action = "delete" /\ r \in op.ids

\* C7 as stated: once a record is deleted and a refresh has taken it out of the
\* in-memory collection, it is in neither view in every later state.
C7_DeletedStaysGone ==
  [][\A r \in Ids : gone(r) => gone(r)']_vars

\* C7 amended: a deleted record is never again in the store, and the refresh of
\* its delete leaves it in neither view; afterwards it comes back into the
\* views only when a fetch whose snapshot still holds it resolves.
C7_DeleteRefresh ==
  [][\A r \in Ids :
       /\ deleted(r) => deleted(r)'
       /\ \A op \in ops :
            (deletes(op, r) /\ op.stage = "resolve" /\ fetchAccounts(op))
              => /\ r \notin idsOf(activeView(data'))
                 /\ r \notin idsOf(archivedView(data'))
       /\ (gone(r) /\ ~gone(r)')
            => \E op \in ops :
                 op.stage = "resolve" /\ r \in idsOf(op.snap) /\ fetchAccounts(op)]_vars

C7_Witness ==
  \E r \in Ids :
    /\ gone(r)
    /\ \E op \in ops : op.stage = "resolve" /\ r \in idsOf(op.snap)

\* C10: a successful edit submission leaves the stored activity log equal to
\* the log stored before it followed by exactly one 'Profile Updated' entry.
C10_EditAppendsOne ==
  [][\A op \in ops :
       (op.kind = "update" /\ op.caller = "handleSubmit" /\ handleUpdateAccount(op))
         => store'[op.id].history = Append(store[op.id].history, "Profile Updated")]_vars

isPrefix(a, b) == Len(a) <= Len(b) /\ SubSeq(b, 1, Len(a)) = a

\* C11: the stored activity log of a record only grows at its end: over every
\* step, whatever adds, edits, favorite toggles, bulk actions and refreshes
\* (failed ones too) came before, the log stored before the step is a prefix
\* of the log stored after it.
C11_StoredLogAppendOnly ==
  [][\A i \in DOMAIN store \cap DOMAIN store' :
       isPrefix(store[i].history, store'[i].history)]_vars

\* a failure of the generative call: the request is rejected, or its text is
\* empty, or its text is not JSON
analyzeFailed(r) == r.rejected \/ r.text.body = "" \/ r.text.body # "json"

\* C12: analyzeAccount throws nothing to runAudit; when its request fails
\* (rejected, empty text, text that is not JSON) it returns null, which
\* runAudit stores with setAnalysis; it has sent one request when it returns.
C12_AnalyzeNullOnFailure ==
  [][audit # null =>
       \A r \in AnalyzeResponses(audit.account) :
         analyzeResolves(r) =>
           /\ ~analyzeAccount(r).throws
           /\ audit' # null /\ audit'.stage = "trends"
           /\ analyzeFailed(r) => analysis' = null
           /\ audit.requests = 1]_vars

C12_Witness ==
  /\ audit # null /\ audit.stage = "trends"
  /\ selectedAccount # null /\ selectedAccount.id = audit.account.id
  /\ analysis = null

\* C13: getPlatformTrends throws nothing and never returns null: a rejected
\* request gives the fixed text 'Failed to fetch live trends.' with an empty
\* sources list, every other outcome a non-empty text and a sources list.
C13_TrendsNeverNull ==
  [][audit # null /\ audit.stage = "trends" =>
       \A r \in TrendResponses(audit.account.platform) :
         trendsResolves(r) =>
           /\ ~getPlatformTrends(r).throws
           /\ platformTrends' # null
           /\ platformTrends'.text.body # ""
           /\ DOMAIN platformTrends'.sources = 1..Len(platformTrends'.sources)
           /\ r.rejected =>
                /\ platformTrends'.text.body = "Failed to fetch live trends."
                /\ platformTrends'.sources = <<>>]_vars

C13_Witness ==
  /\ audit = null
  /\ ~isAnalyzing
  /\ platformTrends = FailedTrends

\* C14: the detail panel shows no result of an audit that was started for
\* another record: the analysis on display describes the record the panel is
\* open on, and so does the trends text.
C14_AbandonedAuditDiscarded ==
  selectedAccount # null =>
    /\ analysis # null => analysis.about = selectedAccount.id
    /\ (platformTrends # null /\ "about" \in DOMAIN platformTrends.text)
         => platformTrends.text.about = selectedAccount.platform

\* the collection holds one record per stored document, in document order,
\* with the document's fields (an edit stores the id as a field as well)
sameAsStore(d, st) ==
  /\ Len(d) = Cardinality(DOMAIN st)
  /\ \A i \in 1..Len(d) :
       /\ d[i].id \in DOMAIN st
       /\ [f \in DOMAIN d[i] \ {"id"} |-> d[i][f]]
            = [f \in DOMAIN st[d[i].id] \ {"id"} |-> st[d[i].id][f]]
       /\ \A j \in 1..(i - 1) : d[j].id < d[i].id

\* the round trip of a mutation whose write was applied comes to its end
mutationEnds(op) ==
  /\ op.kind # "fetch"
  /\ op.stage # "write"
  /\ fetchAccounts(op) \/ fetchRejected(op)

C16_EveryFailureAlerts ==
  [][\A op \in ops :
       (writeRejected(op) \/ fetchRejected(op)) => alert' # NoAlert]_vars

\* the record is shown in the view
inView(r) == \E j \in 1..Len(filteredData) : filteredData[j].id = r.id

SearchedFields == {"username", "platform", "realName", "email", "accountManager"}

\* C17: a record of the current view mode is in the view iff the search term
\* is empty or its lower-cased form is a substring of the lower-cased value
\* of one of username, platform, realName, email, accountManager that the
\* record has, and, with favorites-only on, its isFavorite is true; a record
\* of the other view mode is not in the view.
C17_SearchAndFavorites ==
  \A i \in 1..Len(data) :
    LET r == data[i]
        ofMode == IF viewMode = "active" THEN ~Truthy(r, "isArchived")
                  ELSE Truthy(r, "isArchived")
        found == \E f \in SearchedFields \cap DOMAIN r :
                   includes(toLowerCase(r[f]), toLowerCase(searchTerm))
    IN inView(r) <=> /\ ofMode
                     /\ searchTerm = <<>> \/ found
                     /\ showFavoritesOnly => Truthy(r, "isFavorite")

\* favorites-only on, a term with an upper-case letter: a favorite whose
\* username holds the term is kept, an archived favorite and a record that
\* holds the term but is no favorite are dropped
C17_Witness ==
  /\ showFavoritesOnly
  /\ searchTerm = <<"A", "B">>
  /\ \E i, j, k \in 1..Len(data) :
       /\ inView(data[i])
       /\ ~includes(toLowerCase(data[i].platform), toLowerCase(searchTerm))
       /\ ~inView(data[j]) /\ Truthy(data[j], "isFavorite") /\ Truthy(data[j], "isArchived")
       /\ ~inView(data[k]) /\ ~Truthy(data[k], "isFavorite")
            /\ includes(toLowerCase(data[k].username), toLowerCase(searchTerm))

\* the place of a record in store-fetch order
fetchPos(r) == CHOOSE i \in 1..Len(data) : data[i].id = r.id

\* the view the current search, flag and view mode give under a sort setting
viewUnder(cfg) == viewOf(data, viewMode, searchTerm, showFavoritesOnly, cfg)

\* the key's value, a missing one as the empty string (0 among numbers)
keyValue(r, key) ==
  IF key \in DOMAIN r THEN r[key]
  ELSE IF key \in {"followers", "engagementRate"} THEN 0 ELSE <<>>

\* the first value is strictly before the second in ascending order
before(x, y, key) ==
  IF key \in {"followers", "engagementRate"} THEN x < y ELSE strLess(x, y)

AllSortConfigs ==
  [key : {"username", "accountManager", "engagementRate"}, direction : {"asc", "desc"}]

\* C18: under a sort setting the view holds the records of the unsorted view,
\* no record comes after one whose key value is strictly later in the chosen
\* direction (a missing value taken as ''), records with equal key values
\* are in store-fetch order, and an engagement of 4.999 comes before 5.0 in
\* ascending order; with no sort set the view is in store-fetch order.
C18_SortOrder ==
  /\ \A i, j \in 1..Len(viewUnder(null)) :
       i < j => fetchPos(viewUnder(null)[i]) < fetchPos(viewUnder(null)[j])
  /\ \A cfg \in AllSortConfigs \cup ({sortConfig} \ {null}) :
       LET v == viewUnder(cfg)
           val(k) == keyValue(v[k], cfg.key)
       IN /\ Len(v) = Len(viewUnder(null))
          /\ idsOf(v) = idsOf(viewUnder(null))
          /\ \A i, j \in 1..Len(v) :
               i < j =>
                 /\ IF cfg.direction = "asc"
                    THEN ~before(val(j), val(i), cfg.key)
                    ELSE ~before(val(i), val(j), cfg.key)
                 /\ val(i) = val(j) => fetchPos(v[i]) < fetchPos(v[j])
                 /\ (cfg = [key |-> "engagementRate", direction |-> "asc"]
                       /\ {val(i), val(j)} = {4999, 5000})
                      => val(i) = 4999

\* a descending sort by username is set; two records of the view have the
\* same username, a third has no account manager, and a record with
\* engagement 5.0 was fetched before one with 4.999
C18_Witness ==
  /\ sortConfig = [key |-> "username", direction |-> "desc"]
  /\ \E i, j \in 1..Len(filteredData) :
       /\ i < j
       /\ filteredData[i].username = filteredData[j].username
       /\ filteredData[i].engagementRate = 5000
       /\ filteredData[j].engagementRate = 4999
  /\ \E k \in 1..Len(filteredData) : "accountManager" \notin DOMAIN filteredData[k]
  /\ filteredData # viewUnder(null)

\* pages 1..n of the view, one after the other
RECURSIVE pagesUpTo(_)
pagesUpTo(n) ==
  IF n = 0 THEN <<>> ELSE pagesUpTo(n - 1) \o paginatedDataOf(filteredData, n)

\* C19: totalPages is the least number of pages of 10 that hold the view and
\* is displayed as at least 1; page n is the view's elements at positions
\* 10(n-1)+1 .. 10n, has at most 10 records, exactly 10 before the last page,
\* and pages 1..totalPages one after the other are the view.
C19_Pagination ==
  /\ totalPages * 10 >= Len(filteredData)
  /\ totalPages = 0 \/ (totalPages - 1) * 10 < Len(filteredData)
  /\ displayedTotalPages >= 1
  /\ displayedTotalPages = (IF Len(filteredData) = 0 THEN 1 ELSE totalPages)
  /\ \A n \in (1..totalPages) \cup {currentPage} :
       LET page == paginatedDataOf(filteredData, n)
       IN /\ Len(page) <= 10
          /\ n < totalPages => Len(page) = 10
          /\ n = totalPages => Len(page) = Len(filteredData) - 10 * (n - 1)
          /\ n > totalPages => page = <<>>
          /\ \A k \in 1..Len(page) : page[k] = filteredData[10 * (n - 1) + k]
  /\ pagesUpTo(totalPages) = filteredData

\* the second, last page of a view of eleven records is shown
C19_Witness ==
  /\ Len(filteredData) = 11
  /\ totalPages = 2
  /\ currentPage = 2
  /\ Len(paginatedData) = 1

\* the required-field and range rules of the entry form
formRulesHold(form) ==
  /\ form.username # <<>>
  /\ form.platform \in {Twitter, Instagram, LinkedIn, TikTok}
  /\ form.followers >= 0
  /\ \E n \in 0..2 : form.followers = n * 1000
  /\ form.engagementRate >= 0
  /\ form.engagementRate <= 100000

\* C20: a submission of a form that breaks a rule (username empty, platform
\* not one of the four, followers negative or not an integer, engagement
\* rate below 0 or above 100) starts no add or update request: every request
\* a submission starts carries a form that keeps the rules.
C20_InvalidSubmitBlocked ==
  [][\A op \in ops' \ ops :
       (op.caller = "handleSubmit" /\ op.stage = "write")
         => /\ formRulesHold(formState)
            /\ op.payload.platform = formState.platform
            /\ op.payload.followers = formState.followers
            /\ op.payload.engagementRate = formState.engagementRate]_vars

\* the form on screen has a username and a platform but an engagement rate
\* above 100 and a negative follower count; nothing was sent to the store
C20_Witness ==
  /\ isModalOpen
  /\ ~isSubmitting
  /\ ops = {}
  /\ formState.username = <<"a">>
  /\ formState.platform = TikTok
  /\ formState.followers = -1000
  /\ formState.engagementRate = 100100
  /\ ~formRulesHold(formState)
  /\ store = (1 :> createdDoc)

\* String.prototype.split on a one-character separator
RECURSIVE split(_, _)
split(str, sep) ==
  IF \E i \in 1..Len(str) : str[i] = sep
  THEN LET i == CHOOSE k \in 1..Len(str) :
                  str[k] = sep /\ \A m \in 1..(k - 1) : str[m] # sep
       IN <<SubSeq(str, 1, i - 1)>> \o split(SubSeq(str, i + 1, Len(str)), sep)
  ELSE <<str>>

\* the records the export is about: the selected ones, or the whole view
selectedRecords == SelectSeq(data, LAMBDA d : d.id \in selectedIds)

fetchIssued ==
  \E op \in ops' : op.stage = "read" /\ \A o \in ops : orphan(o) # orphan(op)

\* C22: while no user is signed in, App presents the login view (the spinner
\* before the first session notification) and no fetch of the account
\* collection is issued.
C22_SignedOutNoFetch ==
  /\ [](~isAuthenticated => screen \in {"login", "spinner"})
  /\ [][fetchIssued => (isAuthenticated \/ isAuthenticated')]_vars

\* C23: a fetch that resolves sets the in-memory collection to what it read,
\* whatever else is in flight and however old its reading is: with two round
\* trips in flight the collection after both is the reading of the fetch
\* that resolved last, also when that reading is older than the collection.
C23_LastFetchWins ==
  [][\A op \in ops :
       fetchAccounts(op) =>
         /\ data' = op.snap
         /\ ops' = {} => data' = op.snap
         /\ (~sameAsStore(op.snap, store) /\ sameAsStore(data, store))
              => ~sameAsStore(data', store')]_vars

\* the collection equals the store after another operation's write and
\* refresh, and a fetch that read the store before that write is still to
\* resolve
C23_Witness ==
  /\ sameAsStore(data, store)
  /\ \E op \in ops :
       /\ op.stage = "resolve"
       /\ ~sameAsStore(op.snap, store)
       /\ op.snap # data

\* C24: the in-memory collection changes only in a step in which a fetch
\* resolves with its result: starting an add, update, delete or bulk action,
\* its write being applied or rejected, a rejected fetch, and the search,
\* favorites, view-mode, sort, page and selection operations leave the
\* collection and the order of its records as they are.
C24_OnlyFetchChangesCollection ==
  [][data' # data => \E op \in ops : op.stage = "resolve" /\ ops' = ops \ {op}
                                      /\ data' = op.snap]_vars

\* a write was applied and the collection still differs from the store while
\* the view is searched, sorted and on its second page
C24_Witness ==
  /\ \E op \in ops : op.stage = "read"
  /\ ~sameAsStore(data, store)
  /\ sortConfig # null
  /\ currentPage = 2
  /\ Len(data) = 12

\* C25: the current page number is within 1..max(1, totalPages), and the
\* displayed page is not an empty slice while the filtered view has records.
C25_PageWithinRange ==
  /\ currentPage \in 1..Max(1, totalPages)
  /\ filteredData # <<>> => paginatedData # <<>>

\* C26: the selection holds only ids of records of the in-memory collection.
C26_SelectionWithinCollection == selectedIds \subseteq idsOf(data)

\* C27: every id a bulk archive, restore or delete is sent with belongs to a
\* record of the displayed view: of the current view mode and passing the
\* current search and favorites filter.
C27_BulkTargetsInView ==
  [][\A op \in ops' \ ops :
       (op.kind = "bulk" /\ op.stage = "write") => op.ids \subseteq idsOf(filteredData)]_vars

\* C28: the record shown in the detail panel has the field values of the
\* record with its id in the in-memory collection, and a click on the
\* favorite star made when no round trip is in flight sends the opposite of
\* the stored isFavorite flag (so that two such clicks restore it).
C28_PanelFollowsCollection ==
  /\ [](selectedAccount # null =>
          \A i \in 1..Len(data) :
            data[i].id = selectedAccount.id => data[i] = selectedAccount)
  /\ [][(toggleFavorite /\ ops = {}) =>
          \A op \in ops' :
            op.payload.isFavorite = ~Truthy(store[op.id], "isFavorite")]_vars


\* ---------------------------------------------------------------------
\* Editing a record whose flags change while the entry form is open.
\* The entry form is a full-screen overlay, so the table and the detail
\* panel only receive clicks while it is closed; one store round trip is
\* started at a time.

EditDocs == InitDocs \cup {Spread(createdDoc, [isFavorite |-> TRUE])}

InitEdit ==
  /\ store \in [{1} -> EditDocs]
  /\ usedIds = DOMAIN store
  /\ data = snapshot(store)
  /\ ops = {}
  /\ selectedIds = {}
  /\ currentPage = 1
  /\ viewMode \in {"active", "archived"}
  /\ showFavoritesOnly = FALSE
  /\ searchTerm = <<>>
  /\ sortConfig = null
  /\ InitPanel
  /\ InitShell
  /\ InitForm

NextEdit ==
  \/ ~isModalOpen /\ \E i \in 1..Len(paginatedData) : openDetail(paginatedData[i])
  \/ ~isModalOpen /\ ops = {} /\ toggleFavorite
  \/ ~isModalOpen /\ toggleSelectAll
  \/ ~isModalOpen /\ ops = {} /\ \E action \in {"archive", "restore"} : handleBulk(action)
  \/ ~isModalOpen /\ \E i \in 1..Len(paginatedData) : openEditModal(paginatedData[i])
  \/ ~isModalOpen /\ selectedAccount # null /\ openEditModal(selectedAccount)
  \/ ops = {} /\ handleSubmit
  \/ \E op \in ops : handleUpdateAccount(op)
  \/ \E op \in ops : handleBulkAction(op)
  \/ \E op \in ops : writeRejected(op)
  \/ \E op \in ops : getDocs(op)
  \/ \E op \in ops : fetchAccounts(op)
  \/ \E op \in ops : fetchRejected(op)

SpecEdit == InitEdit /\ [][NextEdit]_vars

flagsOf(doc) == <<Truthy(doc, "isArchived"), Truthy(doc, "isFavorite")>>

\* C29: the write of an edit submitted through the entry form leaves the
\* stored isArchived and isFavorite of the record as they were just before
\* the edit was submitted (no other store call is in flight between the
\* submission and its write in SpecEdit).
C29_EditKeepsFlags ==
  [][\A op \in ops :
       (op.caller = "handleSubmit" /\ op.kind = "update" /\ handleUpdateAccount(op))
         => flagsOf(store'[op.id]) = flagsOf(store[op.id])]_vars


\* ---------------------------------------------------------------------
\* Busy indicators.  Every external call that was issued resolves, with
\* success or with failure: weak fairness on the resolution of the store
\* call of each caller at each stage of its round trip, of the
\* authentication request and of the two calls of an audit.

InitBusy ==
  /\ store = (1 :> createdDoc)
  /\ usedIds = DOMAIN store
  /\ data = snapshot(store)
  /\ ops = {}
  /\ InitTable
  /\ InitPanel
  /\ InitShell
  /\ InitForm

resolves(op) ==
  \/ handleAddAccount(op)
  \/ handleUpdateAccount(op)
  \/ writeRejected(op)
  \/ getDocs(op)
  \/ fetchAccounts(op)
  \/ fetchRejected(op)

authResolves == signInRejected \/ \E user \in BOOLEAN : authStateChanged(user)

auditResolves ==
  /\ audit # null
  /\ \/ \E r \in AnalyzeResponses(audit.account) : analyzeResolves(r)
     \/ \E r \in TrendResponses(audit.account.platform) : trendsResolves(r)

NextBusy ==
  \/ handleLogout
  \/ loginSubmit
  \/ authResolves
  \/ tableShown /\ ~isModalOpen /\ \E i \in 1..Len(paginatedData) : openDetail(paginatedData[i])
  \/ tableShown /\ ~isModalOpen /\ runAudit
  \/ auditResolves
  \/ tableShown /\ ~isModalOpen /\ openAddModal
  \/ tableShown /\ ~isModalOpen /\ \E i \in 1..Len(paginatedData) : openEditModal(paginatedData[i])
  \/ tableShown /\ ops = {} /\ handleSubmit
  \/ \E op \in ops : resolves(op)

CallsResolve ==
  /\ \A c \in {"handleSubmit", "effect", "unmounted"} :
     \A s \in {"write", "read", "resolve"} :
       WF_vars(\E op \in ops : op.caller = c /\ op.stage = s /\ resolves(op))
  /\ WF_vars(authResolves)
  /\ WF_vars(auditResolves)

SpecBusy == InitBusy /\ [][NextBusy]_vars /\ CallsResolve

trendsInFlight == audit # null /\ audit.stage = "trends"

\* C30: each busy indicator that is raised is lowered again when the calls
\* of its operation resolve (isSubmitting, isLoadingData, the login form's
\* loading, isAnalyzing), and the trends call of an audit is issued only
\* in the step in which its analyze call resolves, with whatever value
\* (null included) that call resolved to.
C30_BusyEventuallyLowered ==
  /\ isSubmitting ~> ~isSubmitting
  /\ isLoadingData ~> ~isLoadingData
  /\ loading ~> ~loading
  /\ isAnalyzing ~> ~isAnalyzing
  /\ [][(trendsInFlight' /\ ~trendsInFlight) =>
          /\ audit # null
          /\ audit.stage = "analyze"
          /\ \E r \in AnalyzeResponses(audit.account) :
               analysis' = analyzeAccount(r).value]_vars

\* An audit ran to its end in the open panel: its analyze call resolved to
\* null, the trends call resolved after it, and isAnalyzing is lowered.
C30_Witness ==
  /\ selectedAccount # null
  /\ audit = null
  /\ ~isAnalyzing
  /\ analysis = null
  /\ platformTrends # null

====
